---- MODULE Spec2Model ----
(***************************************************************************)
(* Model of the ME507 camera stabilizer: the MPU-6050 accelerometer read   *)
(* and calibration path (IMU class), the shared pitch cell, the pitch      *)
(* control state machine (task_PITCH) and the motor driver (Motor class).  *)
(***************************************************************************)
EXTENDS Integers, Sequences, FiniteSets, TLC

(***************************************************************************)
(* C++ integer arithmetic                                                  *)
(***************************************************************************)

\* conversion of an int to int16_t (two's complement wrap, as GCC does)
ToInt16(v) == ((v + 32768) % 65536) - 32768

\* the Arduino abs() macro  ((x)>0?(x):-(x))
Abs(v) == IF v > 0 THEN v ELSE -v

\* C++ integer division: truncates toward zero (TLA+ \div floors)
DivT(a, b) == IF a >= 0 THEN a \div b ELSE -((-a) \div b)

\* bitwise OR of two ints in two's complement
RECURSIVE BitOr(_, _)
BitOr(a, b) ==
    IF a = 0 THEN b
    ELSE IF b = 0 THEN a
    ELSE IF a = -1 \/ b = -1 THEN -1
    ELSE 2 * BitOr(a \div 2, b \div 2)
         + (IF a % 2 = 1 \/ b % 2 = 1 THEN 1 ELSE 0)

\* greatest common divisor of two naturals
RECURSIVE Gcd(_, _)
Gcd(a, b) == IF b = 0 THEN a ELSE Gcd(b, a % b)

(***************************************************************************)
(* Program constants                                                       *)
(***************************************************************************)

pitch_home == 0
err_accept == 10
pitch_kp == 10

\* sensitivity divisor written in the accelerometer decode expression
AccelDivisor == 16384

\* sensitivity divisor written in the gyroscope decode expression
GyroDivisor == 131

\* iterations of the loop of cal_gyro_roll
CalGyroSamples == 200

\* iterations of the two accelerometer calibration loops
CalPitchSamples == 200
CalRollSamples == 500

\* duty written to both channels by Motor::brake
BrakeDuty == 255

\* control states (the values of task_PITCH's local `state`)
IDLE == 0
COMPUTE_DIRECTION == 1
DRIVE_NEGATIVE == 2
DRIVE_POSITIVE == 3
SETTLE == 4

(***************************************************************************)
(* Sensor bus                                                              *)
(***************************************************************************)

\* Wire.read(): the k-th byte of the receive buffer, or -1 when the buffer
\* holds no k-th byte (a transaction that delivered nothing leaves it empty)
WireRead(buf, k) == IF k <= Len(buf) THEN buf[k] ELSE -1

\* One axis of  `Wire.read() << 8 | Wire.read() / 16384`  assigned to an
\* int16_t.  `/` binds tighter than `<<`, which binds tighter than `|`, so the
\* value is (left << 8) | (right / 16384).  The two calls are operands of `|`
\* and C++ leaves their order unspecified: under "lr" the left operand is the
\* first byte taken from the buffer, under "rl" it is the second.
DecodeAxis(buf, axis, order, divisor) ==
    LET first  == WireRead(buf, 2 * axis - 1)
        second == WireRead(buf, 2 * axis)
        left   == IF order = "lr" THEN first ELSE second
        right  == IF order = "lr" THEN second ELSE first
    IN  ToInt16(BitOr(left * 256, DivT(right, divisor)))

(***************************************************************************)
(* atan(num / sqrt(den2)) * 180 / PI                                       *)
(***************************************************************************)

\* round(tan(n deg)^2 * 10^4) for n = 1..45
TanSq ==
    << 3, 12, 27, 49, 77, 110, 151, 198, 251, 311, 378, 452, 533, 622, 718,
       822, 935, 1056, 1186, 1325, 1474, 1632, 1802, 1982, 2174, 2379, 2596,
       2827, 3073, 3333, 3610, 3905, 4217, 4550, 4903, 5279, 5678, 6104,
       6558, 7041, 7557, 8107, 8696, 9326, 10000 >>

\* tan(n deg) <= sqrt(num2 / den2), for n in 1..89 (tan(90-n) = 1/tan(n))
TanLeq(n, num2, den2) ==
    IF n <= 45 THEN TanSq[n] * den2 <= num2 * 10000
               ELSE den2 * 10000 <= num2 * TanSq[90 - n]

\* the largest n in lo..hi with tan(n deg) <= sqrt(num2 / den2), where lo is
\* 0 or such an n (tan grows with n, so the range is halved)
RECURSIVE WholeDegrees(_, _, _, _)
WholeDegrees(lo, hi, num2, den2) ==
    IF lo = hi THEN lo
    ELSE LET mid == (lo + hi + 1) \div 2
         IN  IF TanLeq(mid, num2, den2)
             THEN WholeDegrees(mid, hi, num2, den2)
             ELSE WholeDegrees(lo, mid - 1, num2, den2)

\* The angle in degrees as sign, whole degrees of the magnitude, and whether
\* the magnitude is a whole number.  The three arguments are first divided by
\* their common factor, which leaves the quotient unchanged.  tan^2 of a whole
\* number of degrees is rational with num^2 = k * den2 only at 0, 45 and 90
\* (3 is not a sum of two squares), where the double computation is exact.
AtanDeg(num, a, b) ==
    LET g    == Gcd(Gcd(Abs(num), Abs(a)), Abs(b))
        n1   == Abs(num) \div g
        num2 == n1 * n1
        den2 == (Abs(a) \div g) * (Abs(a) \div g) + (Abs(b) \div g) * (Abs(b) \div g)
    IN  IF num = 0 THEN [neg |-> FALSE, deg |-> 0, whole |-> TRUE]
        ELSE IF den2 = 0 THEN [neg |-> num < 0, deg |-> 90, whole |-> TRUE]
        ELSE IF num2 = den2 THEN [neg |-> num < 0, deg |-> 45, whole |-> TRUE]
        ELSE [neg |-> num < 0,
              deg |-> WholeDegrees(0, 89, num2, den2),
              whole |-> FALSE]

\* (int16_t)(angle - offset): the subtraction is done in double and the
\* conversion truncates toward zero
TruncDiff(ang, offset) ==
    LET lo == IF ang.neg THEN -ang.deg - offset ELSE ang.deg - offset
    IN  IF ang.whole THEN ToInt16(lo)
        ELSE IF ang.neg THEN ToInt16(IF lo <= 0 THEN lo ELSE lo - 1)
        ELSE ToInt16(IF lo >= 0 THEN lo ELSE lo + 1)

\* atan(-1 * AcX_raw / sqrt(pow(AcY_raw,2) + pow(AcZ_raw,2))) * 180 / PI
PitchAngle(x, y, z) == AtanDeg(-1 * x, y, z)

\* atan(AcY_raw / sqrt(pow(AcX_raw,2) + pow(AcZ_raw,2))) * 180 / PI
RollAngle(x, y, z) == AtanDeg(y, x, z)

(***************************************************************************)
(* Inputs: what the sensor bus delivers                                    *)
(***************************************************************************)

\* The six bytes of one accelerometer transaction, in bus order
\* (XH, XL, YH, YL, ZH, ZL), for a platform held at a few pitch tilts with
\* gravity on the z axis.  High bytes: 0x00 level, 0xFA/0xF4/0xDB nose-up
\* (about 5, 10 and 30 degrees), 0x0C/0x25 nose-down (about -10 and -30).
Samples ==
    { << 0, 250, 0, 0, 64, 64 >>,
      << 250, 244, 0, 0, 64, 64 >>,
      << 244, 12, 0, 0, 64, 64 >>,
      << 12, 219, 0, 0, 64, 64 >>,
      << 219, 37, 0, 0, 64, 64 >>,
      << 37, 0, 0, 0, 64, 64 >> }

\* the tilts the platform is held at while setup() calibrates
CalSamples == { << 0, 250, 0, 0, 64, 64 >>, << 250, 244, 0, 0, 64, 64 >> }

\* How the platform is held during a calibration call: transactions 1..turn
\* of the call see the tilt `first`, the later ones the tilt `rest`.
PlanBuf(plan, i) == IF i <= plan.turn THEN plan.first ELSE plan.rest

\* the platform held still at one tilt, as setup() asks ("Hold IMU flat")
SetupPlans == { [first |-> s, rest |-> s, turn |-> 0] : s \in CalSamples }

\* Tilts for the calibration calls taken on their own: level, nose-up and
\* nose-down by about 10 degrees, nose-up by 90, rolled by about -30 and by
\* 90.  Both bytes of an axis are equal, so both read orders decode the
\* same value.
CalTilts ==
    { << 0, 0, 0, 0, 64, 64 >>,
      << 244, 244, 0, 0, 64, 64 >>,
      << 12, 12, 0, 0, 64, 64 >>,
      << 192, 192, 0, 0, 0, 0 >>,
      << 0, 0, 219, 219, 64, 64 >>,
      << 0, 0, 64, 64, 0, 0 >> }

\* the platform moved once during the call, after 0, 1, 100 or 199 transactions
CalPlans ==
    { [first |-> a, rest |-> b, turn |-> k] :
        a \in CalTilts, b \in CalTilts, k \in { 0, 1, 100, 199 } }

\* The two bytes of one gyroscope transaction (XH, XL): at rest, a
\* positive rate, a negative rate.
GyroSamples == { << 0, 0 >>, << 1, 200 >>, << 255, 255 >> }

\* the latest value millis() returns in the model, and the most calls of
\* read_gyro_roll it follows
MaxMillis == 2000
MaxGyroCalls == 2

\* the orders in which a build may evaluate the two Wire.read() calls
ReadOrders == { "lr", "rl" }

\* Wire.requestFrom: the receive buffer after the transaction
RequestFrom(busState, sample) == IF busState = "up" THEN sample ELSE << >>

(***************************************************************************)
(* Shared pitch cell  Share<int16_t> pitch  (taskshare.h)                  *)
(***************************************************************************)

\* a put that is dropped when the cell already holds a value
Share_putIfEmpty(cell, v) == IF cell = << >> THEN << v >> ELSE cell

\* a one-slot cell: << >> until the first put, << v >> afterwards
Share_put(cell, v) == << v >>

\* get() blocks while nothing was ever put
Share_ready(cell) == cell # << >>

\* the value get() returns
Share_get(cell) == Head(cell)

\* a get that takes the value out of the cell
Share_after_getTaken(cell) == << >>

\* the cell after a get(): the value stays in place
Share_after_get(cell) == cell

(***************************************************************************)
(* Motor driver                                                            *)
(***************************************************************************)

\* the input pins of motors 1 (pitch), 2 (roll) and 3 (yaw)
m1_in1_pin == 21
m1_in2_pin == 13
m2_in1_pin == 12
m2_in2_pin == 27
m3_in1_pin == 33
m3_in2_pin == 15

\* Motor::init: in1_channel = 0, in2_channel = 1 for every motor;
\* ledcAttachPin(in1_pin, 0); ledcAttachPin(in2_pin, 1).  `attached` maps
\* each attached pin to the LEDC channel that drives it.
Motor_init(attached, in1_pin, in2_pin) ==
    [p \in DOMAIN attached \cup { in1_pin, in2_pin } |->
        IF p = in1_pin THEN 0
        ELSE IF p = in2_pin THEN 1
        ELSE attached[p]]

\* the pin attachments after pitch_motor.init, roll_motor.init and
\* yaw_motor.init in setup()
Attached ==
    Motor_init(Motor_init(Motor_init(<< >>, m1_in1_pin, m1_in2_pin),
                          m2_in1_pin, m2_in2_pin),
               m3_in1_pin, m3_in2_pin)

\* Motor::spin: ledcWrite(0, ch1_dc); ledcWrite(1, ch2_dc)
Motor_spin(duty, ch1_dc, ch2_dc) == [duty EXCEPT ![0] = ch1_dc, ![1] = ch2_dc]

\* Motor::brake writing zero duty (coast) to both channels
Motor_brakeCoast(duty) == [duty EXCEPT ![0] = 0, ![1] = 0]

\* Motor::brake: ledcWrite(0, 255); ledcWrite(1, 255)
Motor_brake(duty) == [duty EXCEPT ![0] = BrakeDuty, ![1] = BrakeDuty]

IsBrake(cmd) == cmd = << BrakeDuty, BrakeDuty >>

\* a spin with exactly one channel nonzero
IsDrive(cmd) == (cmd[1] # 0 /\ cmd[2] = 0) \/ (cmd[1] = 0 /\ cmd[2] # 0)

(***************************************************************************)
(* State                                                                   *)
(***************************************************************************)

VARIABLES
    read_order,        \* evaluation order of the build
    cal_plan,          \* how the platform is held while setup() calibrates
    bus,               \* "up": transactions deliver their bytes; "down": none
    setup_pc,          \* position of setup()
    pitch_offset_acc, roll_offset_acc,   \* IMU fields
    pitch,             \* the shared cell
    imu_pc,            \* position of task_read_IMU
    pc,                \* position of task_PITCH in its loop body
    state, current_pitch, err_pitch, set_pitch,   \* locals of task_PITCH
    ledc,              \* duty of LEDC channels 0 and 1
    trace,             \* history: states whose block ran in this pass
    cmds,              \* history: commands written in this pass
    holds,             \* history: for each of those commands, the
                       \*          argument of the delay() that follows it
    published,         \* history: read_acc_pitch has called pitch.put
    last_put,          \* history: argument of the latest pitch.put
    fresh,             \* history: a put happened since the latest get
    differs,           \* history: a put since the latest get replaced a
                       \*          different value that no get had returned
    now,               \* millis()
    GyX_raw, GyX_offset,   \* IMU fields
    gy_ret,            \* the value the latest read_gyro_roll returned
    gy_buf,            \* history: receive buffer of the latest transaction
                       \*          of read_gyro_roll
    gy_last,           \* history: millis() at the latest read_gyro_roll
    gy_calls,          \* history: calls of read_gyro_roll so far
    read_kind          \* history: the get of this pass was the "first"
                       \*          after a put, came after a replaced value
                       \*          ("skipped"), or had no put before it
                       \*          ("again"); "none" before the get

imu_vars  == << pitch_offset_acc, roll_offset_acc >>
ctl_vars  == << pc, state, current_pitch, err_pitch, set_pitch, ledc, trace, cmds, holds >>
hist_vars == << published, last_put, fresh, differs, read_kind >>
gyro_vars == << now, GyX_raw, GyX_offset, gy_ret, gy_buf, gy_last, gy_calls >>
vars == << read_order, cal_plan, gyro_vars, bus, setup_pc, imu_vars, pitch, imu_pc, ctl_vars,
           hist_vars >>

\* the local `state` starting in COMPUTE_DIRECTION
InitStateCompute == COMPUTE_DIRECTION

\* `int16_t state = 0;`
InitState == IDLE

\* The IMU fields AcX_raw, AcY_raw and AcZ_raw are assigned at the start of
\* every call that reads them and are read nowhere else: they are values of
\* the call (x, y, z below), not part of the state.
\* Globals are zero-initialised; task_PITCH's locals other than `state` are
\* not initialised, and none of them is read before it is assigned, except
\* current_pitch, whose only such read is the copy into prev_pitch, a local
\* that is never read and is left out of the state.
Boot ==
    /\ read_order \in ReadOrders
    /\ setup_pc = "cal_acc_pitch"
    /\ pitch_offset_acc = 0 /\ roll_offset_acc = 0
    /\ pitch = << >>
    /\ imu_pc = "read_acc_pitch"
    /\ pc = "if0"
    /\ state = InitState
    /\ current_pitch = 0 /\ err_pitch = 0 /\ set_pitch = 0
    /\ ledc = [c \in 0..1 |-> 0]
    /\ trace = << >> /\ cmds = << >> /\ holds = << >>
    /\ published = FALSE /\ last_put = 0 /\ fresh = FALSE
    /\ differs = FALSE /\ read_kind = "none"
    /\ now = 0 /\ GyX_raw = 0 /\ GyX_offset = 0
    /\ gy_ret = 0 /\ gy_buf = << >> /\ gy_last = 0 /\ gy_calls = 0

Init ==
    /\ Boot
    /\ cal_plan \in SetupPlans
    /\ bus \in { "up", "down" }

(***************************************************************************)
(* The bus: transactions start or stop delivering bytes at any time        *)
(***************************************************************************)

BusDown ==
    /\ bus = "up"
    /\ bus' = "down"
    /\ UNCHANGED << read_order, cal_plan, gyro_vars, setup_pc, imu_vars, pitch, imu_pc, ctl_vars,
                    hist_vars >>

BusUp ==
    /\ bus = "down"
    /\ bus' = "up"
    /\ UNCHANGED << read_order, cal_plan, gyro_vars, setup_pc, imu_vars, pitch, imu_pc, ctl_vars,
                    hist_vars >>

(***************************************************************************)
(* IMU: calibration                                                        *)
(***************************************************************************)

\* One iteration of the averaging loop of cal_acc_pitch on the receive
\* buffer of its transaction; acc holds the raw fields, sum and count.
CalPitchStep(acc, buf, order) ==
    LET x == DecodeAxis(buf, 1, order, AccelDivisor)
        y == DecodeAxis(buf, 2, order, AccelDivisor)
        z == DecodeAxis(buf, 3, order, AccelDivisor)
        pitch_acc_raw == TruncDiff(PitchAngle(x, y, z), 0)
    IN  [x |-> x, y |-> y, z |-> z,
         sum |-> ToInt16(acc.sum + pitch_acc_raw),
         count |-> (acc.count + 1) % 65536]

\* One iteration of the averaging loop of cal_acc_roll
CalRollStep(acc, buf, order) ==
    LET x == DecodeAxis(buf, 1, order, AccelDivisor)
        y == DecodeAxis(buf, 2, order, AccelDivisor)
        z == DecodeAxis(buf, 3, order, AccelDivisor)
        roll_acc_raw == TruncDiff(RollAngle(x, y, z), 0)
    IN  [x |-> x, y |-> y, z |-> z,
         sum |-> ToInt16(acc.sum + roll_acc_raw),
         count |-> (acc.count + 1) % 65536]

\* One iteration of the loop of cal_gyro_roll: the sum is a uint16_t
CalGyroStep(acc, buf, order) ==
    LET x == DecodeAxis(buf, 1, order, GyroDivisor)
    IN  [x |-> x, y |-> acc.y, z |-> acc.z,
         sum |-> (acc.sum + x) % 65536,
         count |-> (acc.count + 1) % 65536]

\* Iterations lo..hi of a calibration loop, in order, from accumulator acc.
\* The range is halved and the first half is evaluated (its count, a
\* uint16_t, is looked at) before the second half starts from it, so that
\* the evaluation stays shallow.
RECURSIVE CalLoop(_, _, _, _, _, _)
CalLoop(axis, bufs, order, lo, hi, acc) ==
    IF lo > hi THEN acc
    ELSE IF lo = hi
         THEN IF axis = "pitch" THEN CalPitchStep(acc, bufs[lo], order)
              ELSE IF axis = "roll" THEN CalRollStep(acc, bufs[lo], order)
              ELSE CalGyroStep(acc, bufs[lo], order)
    ELSE LET mid   == (lo + hi) \div 2
             first == CalLoop(axis, bufs, order, lo, mid, acc)
         IN  IF first.count \in 0..65535
             THEN CalLoop(axis, bufs, order, mid + 1, hi, first)
             ELSE first

\* sum / count rounded down instead of toward zero
CalOffsetFloor(acc) == ToInt16(acc.sum \div acc.count)

\* sum / count stored in an int16_t offset
CalOffset(acc) == ToInt16(DivT(acc.sum, acc.count))

\* mpu.cal_acc_pitch(MPU_ADDR) in setup(): 200 transactions, the platform
\* held as cal_plan says
cal_acc_pitch ==
    /\ setup_pc = "cal_acc_pitch"
    /\ LET bufs == [i \in 1..CalPitchSamples |->
                        RequestFrom(bus, PlanBuf(cal_plan, i))]
           acc  == CalLoop("pitch", bufs, read_order, 1, CalPitchSamples,
                       [x |-> 0, y |-> 0, z |-> 0, sum |-> 0, count |-> 0])
       IN  pitch_offset_acc' = CalOffset(acc)
    /\ setup_pc' = "cal_acc_roll"
    /\ UNCHANGED << read_order, cal_plan, gyro_vars, bus, roll_offset_acc, pitch, imu_pc, ctl_vars,
                    hist_vars >>

\* mpu.cal_acc_roll(MPU_ADDR) in setup(), then the tasks are created
cal_acc_roll ==
    /\ setup_pc = "cal_acc_roll"
    /\ LET bufs == [i \in 1..CalRollSamples |->
                        RequestFrom(bus, PlanBuf(cal_plan, i))]
           acc  == CalLoop("roll", bufs, read_order, 1, CalRollSamples,
                       [x |-> 0, y |-> 0, z |-> 0, sum |-> 0, count |-> 0])
       IN  roll_offset_acc' = CalOffset(acc)
    /\ setup_pc' = "tasks"
    /\ UNCHANGED << read_order, cal_plan, gyro_vars, bus, pitch_offset_acc, pitch, imu_pc, ctl_vars,
                    hist_vars >>

\* the tasks created before setup() calibrates
TasksRunningEarly == TRUE

\* setup() has created the tasks: both calibration calls have returned
TasksRunning == setup_pc = "tasks"

(***************************************************************************)
(* IMU: reads, called in turn by task_read_IMU                             *)
(***************************************************************************)

\* the receive buffers a transaction of the read path can leave
Buffers == Samples \cup { << >> }

\* The pitch angle read_acc_pitch projects from each receive buffer under
\* each read order: the three decodes and the atan expression.  The angle
\* depends on nothing else, so it is tabulated once per buffer.
PitchAngleOf ==
    [order \in ReadOrders |->
        [buf \in Buffers |->
            LET x == DecodeAxis(buf, 1, order, AccelDivisor)
                y == DecodeAxis(buf, 2, order, AccelDivisor)
                z == DecodeAxis(buf, 3, order, AccelDivisor)
            IN  PitchAngle(x, y, z)]]

\* the roll angle read_acc_roll projects from each receive buffer
RollAngleOf ==
    [order \in ReadOrders |->
        [buf \in Buffers |->
            LET x == DecodeAxis(buf, 1, order, AccelDivisor)
                y == DecodeAxis(buf, 2, order, AccelDivisor)
                z == DecodeAxis(buf, 3, order, AccelDivisor)
            IN  RollAngle(x, y, z)]]

\* read_acc_pitch leaving the offset out
PitchAccNoOffset(buf, order, offset) == TruncDiff(PitchAngleOf[order][buf], 0)

\* the value read_acc_pitch computes: the projected angle less the offset
PitchAcc(buf, order, offset) == TruncDiff(PitchAngleOf[order][buf], offset)

\* mpu.read_acc_pitch(MPU_ADDR): one transaction, the corrected angle,
\* pitch.put(pitch_acc)
read_acc_pitch ==
    /\ TasksRunning
    /\ imu_pc = "read_acc_pitch"
    /\ \E s \in Samples :
        LET pitch_acc == PitchAcc(RequestFrom(bus, s), read_order,
                                  pitch_offset_acc)
        IN  /\ pitch' = Share_put(pitch, pitch_acc)
            /\ last_put' = pitch_acc
            /\ differs' = (fresh /\ (differs \/ pitch_acc # last_put))
    /\ published' = TRUE
    /\ fresh' = TRUE
    /\ UNCHANGED read_kind
    /\ imu_pc' = "read_acc_roll"
    /\ UNCHANGED << read_order, cal_plan, gyro_vars, bus, setup_pc, pitch_offset_acc,
                    roll_offset_acc, ctl_vars >>

\* the value read_acc_roll returns
RollAcc(buf, order, offset) == TruncDiff(RollAngleOf[order][buf], offset)

\* mpu.read_acc_roll(MPU_ADDR): one transaction; the corrected angle is
\* returned and dropped by task_read_IMU, and nothing else is written
read_acc_roll ==
    /\ TasksRunning
    /\ imu_pc = "read_acc_roll"
    /\ \E s \in Samples :
        RollAcc(RequestFrom(bus, s), read_order, roll_offset_acc) \in -32768..32767
    /\ imu_pc' = "vTaskDelay"
    /\ UNCHANGED << read_order, cal_plan, gyro_vars, bus, setup_pc, pitch_offset_acc,
                    roll_offset_acc, pitch, ctl_vars, hist_vars >>

\* vTaskDelay(100) of task_read_IMU returns
imu_delay ==
    /\ TasksRunning
    /\ imu_pc = "vTaskDelay"
    /\ imu_pc' = "read_acc_pitch"
    /\ UNCHANGED << read_order, cal_plan, gyro_vars, bus, setup_pc, imu_vars, pitch, ctl_vars,
                    hist_vars >>

(***************************************************************************)
(* IMU: gyroscope, roll axis.  No task calls these two methods; they are   *)
(* taken on their own, called at any time in any order.                    *)
(***************************************************************************)

\* time passes: millis() advances by a second
Tick ==
    /\ now < MaxMillis
    /\ now' = now + 1000
    /\ UNCHANGED << read_order, cal_plan, bus, setup_pc, imu_vars, pitch,
                    imu_pc, ctl_vars, hist_vars, GyX_raw, GyX_offset, gy_ret,
                    gy_buf, gy_last, gy_calls >>

\* the receive buffers a gyroscope transaction can leave
GyroBuffers == GyroSamples \cup { << >> }

\* The loop of cal_gyro_roll over 200 transactions that all leave the same
\* receive buffer: the accumulator at its end, tabulated once per buffer.
CalGyroOf ==
    [order \in ReadOrders |->
        [buf \in GyroBuffers |->
            CalLoop("gyro", [i \in 1..CalGyroSamples |-> buf], order, 1,
                    CalGyroSamples,
                    [x |-> 0, y |-> 0, z |-> 0, sum |-> 0, count |-> 0])]]

\* mpu.cal_gyro_roll(MPU_ADDR): 200 two-byte transactions at rate s; GyX_raw
\* is left at the last decode, GyX_offset = sum/count
cal_gyro_roll ==
    /\ \E s \in GyroSamples :
        LET acc == CalGyroOf[read_order][RequestFrom(bus, s)]
        IN  /\ GyX_raw' = acc.x
            /\ GyX_offset' = DivT(acc.sum, acc.count)
    /\ UNCHANGED << read_order, cal_plan, bus, setup_pc, imu_vars, pitch,
                    imu_pc, ctl_vars, hist_vars, now, gy_ret, gy_buf, gy_last,
                    gy_calls >>

\* `int16_t roll_gx;` is read before it is assigned: the values the build
\* may find there, among them what the previous call left (prev)
Indeterminate(prev) == { 0, -1, prev }

\* duration = (current_time - previous_time)/1000 with the local
\* previous_time = 0 and current_time = millis(), all unsigned long
Duration(current_time) == (current_time - 0) \div 1000

\* roll_gx + GyX_raw*duration: the product and the sum are taken in
\* unsigned long (modulo 2^32) and the result is stored in the int16_t
\* roll_gx; 2^16 divides 2^32, so the stored value is the sum modulo 2^16
Integrate(roll_gx, rate, duration) == ToInt16(roll_gx + rate * duration)

\* mpu.read_gyro_roll(MPU_ADDR): one two-byte transaction, the decode, the
\* offset subtracted in place, the sum returned
read_gyro_roll ==
    /\ gy_calls < MaxGyroCalls
    /\ \E s \in GyroSamples, roll_gx \in Indeterminate(gy_ret) :
        LET buf  == RequestFrom(bus, s)
            rate == ToInt16(DecodeAxis(buf, 1, read_order, GyroDivisor)
                            - GyX_offset)
        IN  /\ gy_buf' = buf
            /\ GyX_raw' = rate
            /\ gy_ret' = Integrate(roll_gx, rate, Duration(now))
    /\ gy_last' = now
    /\ gy_calls' = gy_calls + 1
    /\ UNCHANGED << read_order, cal_plan, bus, setup_pc, imu_vars, pitch,
                    imu_pc, ctl_vars, hist_vars, now, GyX_offset >>

(***************************************************************************)
(* task_PITCH: one action per block of the loop body                       *)
(***************************************************************************)

\* the error with its sign reversed
ErrPitchReversed(cur) == ToInt16(cur - pitch_home)

\* err_pitch = pitch_home - current_pitch, an int16_t
ErrPitch(cur) == ToInt16(pitch_home - cur)

\* IdleNext with the second test comparing against pitch_home
IdleNextWrongBound(st, err) ==
    LET s1 == IF Abs(err) < Abs(err_accept) THEN SETTLE ELSE st
    IN  IF Abs(err) > Abs(pitch_home) THEN COMPUTE_DIRECTION ELSE s1

\* the two tests that end the state-0 block: the state they leave
IdleNext(st, err) ==
    LET s1 == IF Abs(err) < Abs(err_accept) THEN SETTLE ELSE st
    IN  IF Abs(err) > Abs(err_accept) THEN COMPUTE_DIRECTION ELSE s1

\* a setpoint that is 0 whatever the error
SetPointZero(err) == 0

\* set_pitch = err_pitch * pitch_kp, an int16_t
SetPoint(err) == ToInt16(err * pitch_kp)

\* `if(set_pitch = 0)`: the assignment stores 0 and its value, 0, is the
\* condition; the record holds the stored value and whether the branch is taken
ZeroTest(sp) == [stored |-> 0, taken |-> FALSE]

\* ComputeNext with the two directions exchanged
ComputeNextSwapped(st, sp) ==
    LET s1 == IF sp < 0 THEN DRIVE_POSITIVE ELSE st
        s2 == IF sp > 0 THEN DRIVE_NEGATIVE ELSE s1
    IN  IF ZeroTest(sp).taken THEN SETTLE ELSE s2

\* the three tests of the state-1 block: the state they leave
ComputeNext(st, sp) ==
    LET s1 == IF sp < 0 THEN DRIVE_NEGATIVE ELSE st
        s2 == IF sp > 0 THEN DRIVE_POSITIVE ELSE s1
    IN  IF ZeroTest(sp).taken THEN SETTLE ELSE s2

\* a DRIVE block that goes back to IDLE
AfterDriveIdle == IDLE

\* a DRIVE block that goes back to COMPUTE_DIRECTION
AfterDriveCompute == COMPUTE_DIRECTION

\* `state = 4;` at the end of the state-2 and state-3 blocks
AfterDrive == SETTLE

\* a SETTLE block that leaves the state as it is
AfterSettleStay == SETTLE

\* `state = 0;` at the end of the state-4 block
AfterSettle == IDLE

\* `delay(100);` of the state-2 block
DriveNegativeHold == 100

\* `delay(60);` of the state-3 block
DrivePositiveHold == 60

\* `delay(100);` of the state-4 block
SettleHold == 100

\* a state-2 block whose duty grows with the setpoint
DriveNegativeCmdStrong == << 50, 0 >>

\* the command of the state-2 block: pitch_motor.spin(25,0)
DriveNegativeCmd == << 25, 0 >>

\* the command of the state-3 block: pitch_motor.spin(0,50)
DrivePositiveCmd == << 0, 50 >>

\* if(state == 0), up to the call of pitch.get(): pitch_motor.brake()
P_if0 ==
    /\ TasksRunning
    /\ pc = "if0"
    /\ IF state = IDLE
       THEN /\ ledc' = Motor_brake(ledc)
            /\ cmds' = Append(cmds, << ledc'[0], ledc'[1] >>)
            /\ holds' = Append(holds, 0)   \* no delay() follows
            /\ trace' = Append(trace, IDLE)
            /\ pc' = "get"
       ELSE /\ pc' = "if1"
            /\ UNCHANGED << ledc, cmds, holds, trace >>
    /\ UNCHANGED << read_order, cal_plan, gyro_vars, bus, setup_pc, imu_vars, pitch, imu_pc, state,
                    current_pitch, err_pitch, set_pitch, hist_vars >>

\* the rest of the state-0 block: pitch.get() returns, the error and the
\* two threshold tests
P_get ==
    /\ TasksRunning
    /\ pc = "get"
    /\ Share_ready(pitch)
    /\ current_pitch' = Share_get(pitch)
    /\ pitch' = Share_after_get(pitch)
    /\ err_pitch' = ErrPitch(current_pitch')
    /\ state' = IdleNext(state, err_pitch')
    /\ fresh' = FALSE
    /\ differs' = FALSE
    /\ read_kind' = IF ~fresh THEN "again"
                    ELSE IF differs THEN "skipped" ELSE "first"
    /\ pc' = "if1"
    /\ UNCHANGED << read_order, cal_plan, gyro_vars, bus, setup_pc, imu_vars, imu_pc, set_pitch,
                    ledc, trace, cmds, holds, published, last_put >>

\* if(state == 1)
P_if1 ==
    /\ TasksRunning
    /\ pc = "if1"
    /\ IF state = COMPUTE_DIRECTION
       THEN /\ state' = ComputeNext(state, SetPoint(err_pitch))
            /\ set_pitch' = ZeroTest(SetPoint(err_pitch)).stored
            /\ trace' = Append(trace, COMPUTE_DIRECTION)
       ELSE UNCHANGED << state, set_pitch, trace >>
    /\ pc' = "if2"
    /\ UNCHANGED << read_order, cal_plan, gyro_vars, bus, setup_pc, imu_vars, pitch, imu_pc,
                    current_pitch, err_pitch, ledc, cmds, holds, hist_vars >>

\* if(state == 2): spin(25,0); delay(100); state = 4
P_if2 ==
    /\ TasksRunning
    /\ pc = "if2"
    /\ IF state = DRIVE_NEGATIVE
       THEN /\ ledc' = Motor_spin(ledc, DriveNegativeCmd[1], DriveNegativeCmd[2])
            /\ cmds' = Append(cmds, << ledc'[0], ledc'[1] >>)
            /\ holds' = Append(holds, DriveNegativeHold)
            /\ trace' = Append(trace, DRIVE_NEGATIVE)
            /\ state' = AfterDrive
       ELSE UNCHANGED << ledc, cmds, holds, trace, state >>
    /\ pc' = "if3"
    /\ UNCHANGED << read_order, cal_plan, gyro_vars, bus, setup_pc, imu_vars, pitch, imu_pc,
                    current_pitch, err_pitch, set_pitch, hist_vars >>

\* if(state == 3): spin(0,50); delay(60); state = 4
P_if3 ==
    /\ TasksRunning
    /\ pc = "if3"
    /\ IF state = DRIVE_POSITIVE
       THEN /\ ledc' = Motor_spin(ledc, DrivePositiveCmd[1], DrivePositiveCmd[2])
            /\ cmds' = Append(cmds, << ledc'[0], ledc'[1] >>)
            /\ holds' = Append(holds, DrivePositiveHold)
            /\ trace' = Append(trace, DRIVE_POSITIVE)
            /\ state' = AfterDrive
       ELSE UNCHANGED << ledc, cmds, holds, trace, state >>
    /\ pc' = "if4"
    /\ UNCHANGED << read_order, cal_plan, gyro_vars, bus, setup_pc, imu_vars, pitch, imu_pc,
                    current_pitch, err_pitch, set_pitch, hist_vars >>

\* if(state == 4): brake(); delay(100); state = 0
P_if4 ==
    /\ TasksRunning
    /\ pc = "if4"
    /\ IF state = SETTLE
       THEN /\ ledc' = Motor_brake(ledc)
            /\ cmds' = Append(cmds, << ledc'[0], ledc'[1] >>)
            /\ holds' = Append(holds, SettleHold)
            /\ trace' = Append(trace, SETTLE)
            /\ state' = AfterSettle
       ELSE UNCHANGED << ledc, cmds, holds, trace, state >>
    /\ pc' = "vTaskDelay"
    /\ UNCHANGED << read_order, cal_plan, gyro_vars, bus, setup_pc, imu_vars, pitch, imu_pc,
                    current_pitch, err_pitch, set_pitch, hist_vars >>

\* vTaskDelay(300) returns and the next pass of the loop starts
P_delay ==
    /\ TasksRunning
    /\ pc = "vTaskDelay"
    /\ pc' = "if0"
    /\ trace' = << >>
    /\ cmds' = << >>
    /\ holds' = << >>
    /\ read_kind' = "none"
    /\ UNCHANGED << read_order, cal_plan, gyro_vars, bus, setup_pc, imu_vars, pitch, imu_pc, state,
                    current_pitch, err_pitch, set_pitch, ledc, published,
                    last_put, fresh, differs >>

(***************************************************************************)
(* Specification                                                           *)
(***************************************************************************)

task_read_IMU == read_acc_pitch \/ read_acc_roll \/ imu_delay

task_PITCH == P_if0 \/ P_get \/ P_if1 \/ P_if2 \/ P_if3 \/ P_if4 \/ P_delay

Next ==
    \/ BusDown
    \/ BusUp
    \/ cal_acc_pitch
    \/ cal_acc_roll
    \/ read_acc_pitch
    \/ read_acc_roll
    \/ imu_delay
    \/ P_if0
    \/ P_get
    \/ P_if1
    \/ P_if2
    \/ P_if3
    \/ P_if4
    \/ P_delay

Spec == Init /\ [][Next]_vars

\* The two calibration calls of setup() taken on their own, on a bus that
\* delivers every transaction, with the platform held or moved as one of
\* CalPlans says.
CalInit ==
    /\ Boot
    /\ cal_plan \in CalPlans
    /\ bus = "up"

CalNext ==
    \/ cal_acc_pitch
    \/ cal_acc_roll

CalSpec == CalInit /\ [][CalNext]_vars

\* The gyroscope methods taken on their own, on a bus that may fail
GyroInit ==
    /\ Boot
    /\ cal_plan \in SetupPlans
    /\ bus \in { "up", "down" }

GyroNext ==
    \/ BusDown
    \/ BusUp
    \/ Tick
    \/ cal_gyro_roll
    \/ read_gyro_roll

GyroSpec == GyroInit /\ [][GyroNext]_vars

\* The state in which setup() creates the two tasks: both calibrations have
\* run, on a bus that delivered their bytes or not, with the platform held
\* at one of the calibration tilts.
TasksCreated ==
    /\ read_order \in ReadOrders
    /\ cal_plan \in SetupPlans
    /\ bus \in { "up", "down" }
    /\ setup_pc = "tasks"
    /\ pitch_offset_acc \in
         { CalOffset(CalLoop("pitch",
                             [i \in 1..CalPitchSamples |->
                                 RequestFrom(b, PlanBuf(cal_plan, i))],
                             read_order, 1, CalPitchSamples,
                             [x |-> 0, y |-> 0, z |-> 0, sum |-> 0, count |-> 0]))
           : b \in { "up", "down" } }
    /\ roll_offset_acc \in
         { CalOffset(CalLoop("roll",
                             [i \in 1..CalRollSamples |->
                                 RequestFrom(b, PlanBuf(cal_plan, i))],
                             read_order, 1, CalRollSamples,
                             [x |-> 0, y |-> 0, z |-> 0, sum |-> 0, count |-> 0]))
           : b \in { "up", "down" } }
    /\ pitch = << >>
    /\ imu_pc = "read_acc_pitch"
    /\ pc = "if0"
    /\ state = InitState
    /\ current_pitch = 0 /\ err_pitch = 0 /\ set_pitch = 0
    /\ ledc = [c \in 0..1 |-> 0]
    /\ trace = << >> /\ cmds = << >> /\ holds = << >>
    /\ published = FALSE /\ last_put = 0 /\ fresh = FALSE
    /\ differs = FALSE /\ read_kind = "none"
    /\ now = 0 /\ GyX_raw = 0 /\ GyX_offset = 0
    /\ gy_ret = 0 /\ gy_buf = << >> /\ gy_last = 0 /\ gy_calls = 0

\* the steps of the two tasks and of the bus
TasksNext ==
    \/ BusDown
    \/ BusUp
    \/ read_acc_pitch
    \/ read_acc_roll
    \/ imu_delay
    \/ P_if0
    \/ P_get
    \/ P_if1
    \/ P_if2
    \/ P_if3
    \/ P_if4
    \/ P_delay

\* The two tasks from their creation on.  Both have priority 2 and each
\* blocks in vTaskDelay in every pass of its loop, so the scheduler runs
\* each of them again and again: a task that can take a step takes one.
FairSpec ==
    /\ TasksCreated
    /\ [][TasksNext]_vars
    /\ WF_vars(task_read_IMU)
    /\ WF_vars(task_PITCH)

\* the angles read_acc_pitch can project, as AtanDeg gives them: a sign, the
\* whole degrees of the magnitude and whether the magnitude is a whole
\* number, which it is at 0, 45 and 90 only; and the offsets cal_acc_pitch can store for a platform held level or on its
\* nose or tail
ProjectedAngles ==
    { [neg |-> FALSE, deg |-> 0, whole |-> TRUE] }
    \cup { [neg |-> n, deg |-> d, whole |-> TRUE] :
                n \in BOOLEAN, d \in { 45, 90 } }
    \cup { [neg |-> n, deg |-> d, whole |-> FALSE] :
                n \in BOOLEAN, d \in 0 .. 89 }
PassOffsets == { -90, 0, 90 }

\* The control task about to start a pass after setup() has calibrated and
\* task_read_IMU has published once: the cell holds angle - pitch_offset_acc
\* for any projected angle and any of the offsets, which together give every
\* estimate in -180..180.
PassInit ==
    /\ read_order \in ReadOrders
    /\ cal_plan \in SetupPlans
    /\ bus = "up"
    /\ setup_pc = "tasks"
    /\ pitch_offset_acc \in PassOffsets
    /\ roll_offset_acc = 0
    /\ \E angle \in ProjectedAngles :
        LET pitch_acc == TruncDiff(angle, pitch_offset_acc)
        IN  /\ pitch = Share_put(<< >>, pitch_acc)
            /\ last_put = pitch_acc
    /\ published = TRUE /\ fresh = TRUE /\ differs = FALSE
    /\ read_kind = "none"
    /\ imu_pc = "read_acc_roll"
    /\ pc = "if0"
    /\ state = InitState
    /\ current_pitch = 0 /\ err_pitch = 0 /\ set_pitch = 0
    /\ ledc = [c \in 0..1 |-> 0]
    /\ trace = << >> /\ cmds = << >> /\ holds = << >>
    /\ now = 0 /\ GyX_raw = 0 /\ GyX_offset = 0
    /\ gy_ret = 0 /\ gy_buf = << >> /\ gy_last = 0 /\ gy_calls = 0

\* the steps of the control task alone
PassNext ==
    \/ P_if0
    \/ P_get
    \/ P_if1
    \/ P_if2
    \/ P_if3
    \/ P_if4
    \/ P_delay

PassSpec == PassInit /\ [][PassNext]_vars

(***************************************************************************)
(* Properties                                                              *)
(***************************************************************************)

\* the positions of a pass after pitch.get() has returned in it
AfterGet == { "if1", "if2", "if3", "if4", "vTaskDelay" }

\* the pass has sampled an estimate (its state-0 block ran)
Sampled == setup_pc = "tasks" /\ pc \in AfterGet /\ trace # << >>

\* the command the LEDC channels hold
Duty == << ledc[0], ledc[1] >>

\* C1: whenever IDLE samples an estimate whose error does not satisfy
\* |error| < 10, |error| = 10 included, the state after IDLE is
\* COMPUTE_DIRECTION.
C1_ElseComputeDirection ==
    (Sampled /\ pc = "if1" /\ ~(Abs(pitch_home - current_pitch) < 10))
        => state = COMPUTE_DIRECTION

\* C2: a pass whose estimate has |home - estimate| < 10 goes IDLE, SETTLE,
\* IDLE: it runs no COMPUTE_DIRECTION or DRIVE block, and every command it
\* writes is a brake.
C2_AcceptedSettles ==
    (Sampled /\ Abs(pitch_home - current_pitch) < 10)
        => /\ \A i \in DOMAIN cmds : IsBrake(cmds[i])
           /\ IF pc = "vTaskDelay"
              THEN trace = << IDLE, SETTLE >> /\ state = IDLE /\ Len(cmds) = 2
              ELSE trace = << IDLE >> /\ state = SETTLE

C2_Witness ==
    /\ Sampled /\ pc = "vTaskDelay" /\ current_pitch = 0
    /\ trace = << IDLE, SETTLE >> /\ state = IDLE
    /\ cmds = << << 255, 255 >>, << 255, 255 >> >>

\* C3: when the COMPUTE_DIRECTION block has run on setpoint = error * 10, a
\* negative setpoint has led to DRIVE_NEGATIVE and a positive one to
\* DRIVE_POSITIVE; a pass that sampled estimate 30 (home 0, setpoint -300)
\* is IDLE, COMPUTE_DIRECTION, DRIVE_NEGATIVE, SETTLE, IDLE.
C3_SignSelectsDrive ==
    LET setpoint == (pitch_home - current_pitch) * 10
    IN  /\ (Sampled /\ pc = "if2" /\ trace = << IDLE, COMPUTE_DIRECTION >>)
            => /\ (setpoint < 0 => state = DRIVE_NEGATIVE)
               /\ (setpoint > 0 => state = DRIVE_POSITIVE)
        /\ (Sampled /\ pc = "vTaskDelay" /\ current_pitch = 30)
            => /\ setpoint = -300
               /\ trace = << IDLE, COMPUTE_DIRECTION, DRIVE_NEGATIVE, SETTLE >>
               /\ state = IDLE

C3_Witness ==
    /\ Sampled /\ pc = "vTaskDelay" /\ current_pitch = 30 /\ pitch_home = 0
    /\ trace = << IDLE, COMPUTE_DIRECTION, DRIVE_NEGATIVE, SETTLE >>
    /\ state = IDLE

\* C4: the COMPUTE_DIRECTION block leaves the setpoint it computed in
\* set_pitch (its zero test only compares), and when that setpoint is zero the
\* block leaves state SETTLE.
C4_ZeroTestCompares ==
    [][(pc = "if1" /\ state = COMPUTE_DIRECTION /\ pc' = "if2")
        => /\ set_pitch' = ToInt16(err_pitch * 10)
           /\ (ToInt16(err_pitch * 10) = 0 => state' = SETTLE)]_vars

\* C5: in the history of a pass every DRIVE block is directly followed by
\* SETTLE, whose end leaves IDLE: a drive command is the latest command only
\* while the SETTLE block of the same pass is still to run, every later
\* command of the pass is a brake, and the channels hold a brake whenever
\* the next estimate is sampled.
C5_DriveThenSettle ==
    /\ \A i \in DOMAIN trace :
            /\ trace[i] \in { DRIVE_NEGATIVE, DRIVE_POSITIVE }
                => IF i < Len(trace) THEN trace[i + 1] = SETTLE
                   ELSE state = SETTLE /\ pc \in { "if3", "if4" }
            /\ trace[i] = SETTLE
                => i = Len(trace) /\ state = IDLE /\ pc = "vTaskDelay"
                   /\ IsBrake(Duty)
    /\ \A i \in DOMAIN cmds :
            IsDrive(cmds[i])
                => IF i < Len(cmds) THEN IsBrake(cmds[i + 1]) /\ i + 1 = Len(cmds)
                   ELSE state = SETTLE /\ pc \in { "if3", "if4" }
    /\ (setup_pc = "tasks" /\ pc = "get") => IsBrake(Duty)

C5_Witness ==
    /\ pc = "vTaskDelay" /\ state = IDLE
    /\ trace = << IDLE, COMPUTE_DIRECTION, DRIVE_POSITIVE, SETTLE >>
    /\ cmds = << << 255, 255 >>, << 0, 50 >>, << 255, 255 >> >>

\* C6: while every transaction reports zero bytes, every command written to
\* the channels is a brake.
C6_BrakeOnlyWhileBusDown ==
    [][(bus = "down" /\ Len(cmds') > Len(cmds))
        => IsBrake(cmds'[Len(cmds')])]_vars

\* C7: a calibration pass, read_acc_pitch or read_acc_roll whose transaction
\* reports zero bytes leaves the shared cell and both offsets unchanged.
C7_BusErrorChangesNothing ==
    [][(/\ bus = "down"
        /\ \/ setup_pc' # setup_pc
           \/ (imu_pc \in { "read_acc_pitch", "read_acc_roll" } /\ imu_pc' # imu_pc))
        => /\ pitch' = pitch
           /\ pitch_offset_acc' = pitch_offset_acc
           /\ roll_offset_acc' = roll_offset_acc]_vars

\* C8: until read_acc_pitch has published, the control task has run at most
\* the brake of its first IDLE block: it is at or before its read of the
\* cell, in state IDLE, and has written no drive command.
C8_BlockedUntilPublished ==
    ~published
        => /\ pc \in { "if0", "get" }
           /\ state = IDLE
           /\ trace \in { << >>, << IDLE >> }
           /\ \A i \in DOMAIN cmds : IsBrake(cmds[i])
           /\ ~IsDrive(Duty)

C8_Witness ==
    /\ setup_pc = "tasks" /\ ~published /\ imu_pc = "read_acc_pitch"
    /\ pc = "get" /\ trace = << IDLE >> /\ cmds = << << 255, 255 >> >>

\* C9: every value the control task reads from the cell is the argument of
\* the latest put.
C9_LastWriteWins ==
    [][(pc = "get" /\ pc' = "if1") => current_pitch' = last_put]_vars

C9_Witness ==
    /\ pc = "if1" /\ read_kind = "skipped" /\ current_pitch = last_put

\* C10 as claimed: every read of the control task has a put since its
\* previous read.
C10_ReadOnce ==
    [][(pc = "get" /\ pc' = "if1") => fresh]_vars

\* C10 as amended: once a value was published the read never blocks, and a
\* read with no put since the previous read returns the value of the
\* previous read again.
C10_ReadAgain ==
    [][/\ (published /\ pc = "get") => Share_ready(pitch)
       /\ (pc = "get" /\ pc' = "if1" /\ ~fresh)
            => current_pitch' = current_pitch]_vars

C10_Witness ==
    /\ pc = "if1" /\ read_kind = "again" /\ current_pitch = last_put
    /\ published /\ ~fresh

\* C11: the control task starts in IDLE and, with both tasks scheduled
\* fairly, its IDLE block samples an estimate again and again, for ever.
C11_SamplesForever ==
    /\ state = IDLE
    /\ []<><<P_get>>_vars

C11_Witness ==
    /\ pc = "if1" /\ state = COMPUTE_DIRECTION /\ read_kind = "again"
    /\ trace = << IDLE >>

\* the projected pitch value (pitch_acc_raw) of one calibration transaction
ProjectedPitch(buf) ==
    TruncDiff(PitchAngle(DecodeAxis(buf, 1, read_order, AccelDivisor),
                         DecodeAxis(buf, 2, read_order, AccelDivisor),
                         DecodeAxis(buf, 3, read_order, AccelDivisor)), 0)

\* the projected roll value (roll_acc_raw) of one calibration transaction
ProjectedRoll(buf) ==
    TruncDiff(RollAngle(DecodeAxis(buf, 1, read_order, AccelDivisor),
                        DecodeAxis(buf, 2, read_order, AccelDivisor),
                        DecodeAxis(buf, 3, read_order, AccelDivisor)), 0)

\* the integer-truncated arithmetic mean of n values, the first plan.turn of
\* them va and the others vb
TruncatedMean(plan, n, va, vb) ==
    DivT(plan.turn * va + (n - plan.turn) * vb, n)

\* C12: the offset cal_acc_roll stores is the integer-truncated mean of the
\* 500 projected roll values of its transactions, for every sequence of
\* projected values in -90..90; 500 identical values v give offset v.
C12_RollOffsetIsMean ==
    (setup_pc = "tasks" /\ bus = "up")
        => /\ roll_offset_acc =
                TruncatedMean(cal_plan, 500, ProjectedRoll(cal_plan.first),
                              ProjectedRoll(cal_plan.rest))
           /\ cal_plan.first = cal_plan.rest
                => roll_offset_acc = ProjectedRoll(cal_plan.first)

\* C13: the offset cal_acc_pitch stores in pitch_offset_acc is the
\* integer-truncated mean of the 200 projected pitch values of its
\* transactions, for every sequence of projected values in -90..90; 200
\* identical values v give offset v.
C13_PitchOffsetIsMean ==
    (setup_pc # "cal_acc_pitch" /\ bus = "up")
        => /\ ProjectedPitch(cal_plan.first) \in -90..90
           /\ ProjectedPitch(cal_plan.rest) \in -90..90
           /\ pitch_offset_acc =
                TruncatedMean(cal_plan, 200, ProjectedPitch(cal_plan.first),
                              ProjectedPitch(cal_plan.rest))
           /\ cal_plan.first = cal_plan.rest
                => pitch_offset_acc = ProjectedPitch(cal_plan.first)

C13_Witness ==
    /\ setup_pc = "cal_acc_roll" /\ bus = "up"
    /\ cal_plan = [first |-> << 192, 192, 0, 0, 0, 0 >>,
                   rest |-> << 12, 12, 0, 0, 64, 64 >>, turn |-> 100]
    /\ ProjectedPitch(cal_plan.first) = 90
    /\ ProjectedPitch(cal_plan.rest) = -10
    /\ pitch_offset_acc = 40

\* C14: pitch_offset_acc is written only by the cal_acc_pitch call of
\* setup() and roll_offset_acc only by its cal_acc_roll call, both calls have
\* returned when a task first runs, and once an estimate was published no
\* step changes either offset.
C14_OffsetsFrozen ==
    [][/\ pitch_offset_acc' # pitch_offset_acc => setup_pc = "cal_acc_pitch"
       /\ roll_offset_acc' # roll_offset_acc => setup_pc = "cal_acc_roll"
       /\ (imu_pc' # imu_pc \/ pc' # pc) => setup_pc = "tasks"
       /\ published => UNCHANGED << pitch_offset_acc, roll_offset_acc >>]_vars

C14_Witness ==
    /\ published /\ imu_pc = "vTaskDelay" /\ pc = "vTaskDelay"
    /\ pitch_offset_acc = 5 /\ roll_offset_acc = -35
    /\ trace = << IDLE, COMPUTE_DIRECTION, DRIVE_NEGATIVE, SETTLE >>

\* the big-endian signed 16-bit number of the two bytes of a receive buffer
BigEndian(buf) == ToInt16(buf[1] * 256 + buf[2])

\* C15: the raw value decoded from the two bytes (hi, lo) of a transaction
\* is the big-endian signed 16-bit number hi*256 + lo divided by the
\* sensitivity divisor: by 131 in the rate read_gyro_roll decodes (before
\* the offset is subtracted), by 16384 in the accelerometer decode of the
\* same two bytes.
C15_BigEndianScaled ==
    [][(gy_calls' = gy_calls + 1 /\ Len(gy_buf') = 2)
        => /\ GyX_raw' = ToInt16(DivT(BigEndian(gy_buf'), 131) - GyX_offset)
           /\ DecodeAxis(gy_buf', 1, read_order, AccelDivisor)
                = DivT(BigEndian(gy_buf'), 16384)]_vars

\* C16: a call of read_gyro_roll after an earlier one returns the angle the
\* earlier call returned plus (rate - offset) times the seconds elapsed
\* since that call; a call at the same instant returns the same angle.
C16_IntegratesElapsed ==
    [][(gy_calls' = gy_calls + 1 /\ gy_calls >= 1)
        => /\ gy_ret' = ToInt16(gy_ret + GyX_raw' * ((now - gy_last) \div 1000))
           /\ now = gy_last => gy_ret' = gy_ret]_vars

\* the duty cycle driving an attached pin
PinDuty(duty, pin) == duty[Attached[pin]]

\* C17: a spin or brake on the pitch motor, the only Motor object the tasks
\* command, leaves the duty cycles driving the pins of the roll motor and of
\* the yaw motor unchanged.
C17_OwnChannels ==
    [][\A pin \in { m2_in1_pin, m2_in2_pin, m3_in1_pin, m3_in2_pin } :
            PinDuty(ledc', pin) = PinDuty(ledc, pin)]_vars

\* C18: every command the control loop writes is a brake (255, 255) or a
\* drive with exactly one channel nonzero, and the channels hold (0, 0) only
\* before the first command.
C18_BrakeOrDrive ==
    /\ \A i \in DOMAIN cmds : IsBrake(cmds[i]) \/ IsDrive(cmds[i])
    /\ IsBrake(Duty) \/ IsDrive(Duty)
        \/ (Duty = << 0, 0 >> /\ pc = "if0" /\ cmds = << >> /\ trace = << >>)

C18_Witness ==
    /\ pc = "vTaskDelay" /\ IsBrake(Duty)
    /\ cmds = << << 255, 255 >>, << 25, 0 >>, << 255, 255 >> >>

ExpectedPass(e) ==
    IF Abs(0 - e) < 10
    THEN [trace |-> << IDLE, SETTLE >>,
          cmds |-> << << 255, 255 >>, << 255, 255 >> >>]
    ELSE IF Abs(0 - e) = 10
    THEN [trace |-> << IDLE >>, cmds |-> << << 255, 255 >> >>]
    ELSE IF e > 0
    THEN [trace |-> << IDLE, COMPUTE_DIRECTION, DRIVE_NEGATIVE, SETTLE >>,
          cmds |-> << << 255, 255 >>, << 25, 0 >>, << 255, 255 >> >>]
    ELSE [trace |-> << IDLE, COMPUTE_DIRECTION, DRIVE_POSITIVE, SETTLE >>,
          cmds |-> << << 255, 255 >>, << 0, 50 >>, << 255, 255 >> >>]

\* s is the start of t
IsPrefix(s, t) == Len(s) <= Len(t) /\ \A i \in DOMAIN s : s[i] = t[i]

\* C20: the states visited and commands written by a pass are those of
\* ExpectedPass, a function of the estimate the pass sampled alone: while
\* the pass runs they are a start of it, at the end of the pass all of it.
C20_PassIsFunctionOfEstimate ==
    /\ Sampled
        => /\ IsPrefix(trace, ExpectedPass(current_pitch).trace)
           /\ IsPrefix(cmds, ExpectedPass(current_pitch).cmds)
    /\ (setup_pc = "tasks" /\ pc = "vTaskDelay")
        => /\ trace = ExpectedPass(current_pitch).trace
           /\ cmds = ExpectedPass(current_pitch).cmds

C20_Witness ==
    /\ pc = "vTaskDelay" /\ read_kind = "again" /\ current_pitch < -10
    /\ fresh /\ last_put # current_pitch
    /\ trace = << IDLE, COMPUTE_DIRECTION, DRIVE_POSITIVE, SETTLE >>

\* the latest block of the pass was the block of state st
LatestBlock(st) == trace # << >> /\ trace[Len(trace)] = st

\* C21: the drive pulse depends on the sign of the setpoint alone: the
\* latest command after a DRIVE_NEGATIVE block is spin(25,0) followed by
\* delay(100), after a DRIVE_POSITIVE block spin(0,50) followed by
\* delay(60), and a pass whose error has |error| > 10 has issued, once it is
\* past its DRIVE blocks, the pulse of the sign of its setpoint whatever the
\* magnitude of the error.
C21_PulseBySignOnly ==
    /\ LatestBlock(DRIVE_NEGATIVE)
        => /\ cmds[Len(cmds)] = << 25, 0 >> /\ Duty = << 25, 0 >>
           /\ holds[Len(holds)] = 100
    /\ LatestBlock(DRIVE_POSITIVE)
        => /\ cmds[Len(cmds)] = << 0, 50 >> /\ Duty = << 0, 50 >>
           /\ holds[Len(holds)] = 60
    /\ (Sampled /\ pc \in { "if4", "vTaskDelay" }
            /\ Abs(pitch_home - current_pitch) > 10)
        => /\ Len(cmds) >= 2 /\ Len(holds) = Len(cmds)
           /\ IF SetPoint(pitch_home - current_pitch) < 0
              THEN /\ trace[3] = DRIVE_NEGATIVE
                   /\ cmds[2] = << 25, 0 >> /\ holds[2] = 100
              ELSE /\ trace[3] = DRIVE_POSITIVE
                   /\ cmds[2] = << 0, 50 >> /\ holds[2] = 60

C21_Witness ==
    /\ pc = "if3" /\ LatestBlock(DRIVE_NEGATIVE)
    /\ Abs(pitch_home - current_pitch) > 100
    /\ cmds = << << 255, 255 >>, << 25, 0 >> >> /\ holds = << 0, 100 >>

\* C22: the offset cal_gyro_roll stores in GyX_offset is the
\* integer-truncated mean of the 200 rates it decoded, negative rates
\* included: a call whose 200 transactions all decode the same rate, the one
\* it leaves in GyX_raw, stores that rate.
C22_GyroOffsetIsMean ==
    [][cal_gyro_roll => GyX_offset' = DivT(200 * GyX_raw', 200)]_vars

\* C23: a drive command is in effect on the pitch motor only between the
\* spin of a DRIVE block and the brake of the SETTLE block that follows it:
\* whenever the channels hold a drive the latest block of the pass is a DRIVE
\* block and SETTLE is still to run in the same pass; whenever the control
\* task waits in pitch.get(), is in COMPUTE_DIRECTION or is in vTaskDelay(300)
\* the latest command written is a brake.
C23_DriveOnlyUntilSettle ==
    /\ IsDrive(Duty)
        => /\ setup_pc = "tasks" /\ state = SETTLE /\ pc \in { "if3", "if4" }
           /\ LatestBlock(DRIVE_NEGATIVE) \/ LatestBlock(DRIVE_POSITIVE)
           /\ cmds[Len(cmds)] = Duty
    /\ (setup_pc = "tasks"
            /\ (pc \in { "get", "vTaskDelay" } \/ state = COMPUTE_DIRECTION))
        => /\ IsBrake(Duty)
           /\ cmds # << >> /\ IsBrake(cmds[Len(cmds)])

C23_Witness ==
    /\ pc = "if4" /\ state = SETTLE /\ Duty = << 0, 50 >>
    /\ trace = << IDLE, COMPUTE_DIRECTION, DRIVE_POSITIVE >>
    /\ holds = << 0, 60 >>

\* C24: every pass of the loop body runs a whole cycle: for every estimate
\* in -180..180 the local state is IDLE at vTaskDelay(300) and at the start
\* of the loop body, so that COMPUTE_DIRECTION, DRIVE_NEGATIVE,
\* DRIVE_POSITIVE and SETTLE are never held across a polling period.
C24_IdleAtEveryYield ==
    /\ -180 <= current_pitch /\ current_pitch <= 180
    /\ (setup_pc = "tasks" /\ pc \in { "if0", "vTaskDelay" }) => state = IDLE

C24_Witness ==
    /\ pc = "vTaskDelay" /\ state = IDLE /\ current_pitch = 180
    /\ trace = << IDLE, COMPUTE_DIRECTION, DRIVE_NEGATIVE, SETTLE >>
    /\ holds = << 0, 100, 100 >>

====
